---- MODULE Spec2Model ----
(***************************************************************************)
(* Model of the gateway service in src/index.js: five POST routes that     *)
(* validate a request, optionally fetch a page and strip it to text, call  *)
(* one or two external inference operations in sequence and answer with a  *)
(* JSON body.  Every maximal run of a handler between two suspension       *)
(* points (await) is one action.                                           *)
(*                                                                         *)
(* JavaScript values are records [tag, chars]: undefined, or a string      *)
(* spelled as a sequence of symbols.  Text the regular expressions inspect *)
(* is spelled character by character; literals whose content the code      *)
(* never inspects (messages, language codes, model names) are one symbol.  *)
(***************************************************************************)
EXTENDS Integers, Sequences, FiniteSets, TLC

\* ---------------------------------------------------------------- bounds
NumReqs == 2
MaxTokens == 3

\* --------------------------------------------------- program constants
MaxLength == 70
MinLength == 50

\* ------------------------------------------------------------ JS values
Undef == [tag |-> "undefined", chars |-> <<>>]
Str(cs) == [tag |-> "string", chars |-> cs]
Lit(s) == Str(<<s>>)
Empty == Str(<<>>)

\* !v for the values a JSON body field or a result field takes here
Truthy(v) == v.tag = "string" /\ Len(v.chars) > 0

\* a || b
OrElse(a, b) == IF Truthy(a) THEN a ELSE b

\* --------------------------------------------------------- text helpers
Whitespace == {" ", "\n", "\t", "\r"}
LineTerminators == {"\n", "\r"}

Lower(c) ==
    CASE c = "S" -> "s" [] c = "C" -> "c" [] c = "R" -> "r" [] c = "I" -> "i"
      [] c = "P" -> "p" [] c = "T" -> "t" [] c = "Y" -> "y" [] c = "L" -> "l"
      [] c = "E" -> "e" [] OTHER -> c

SetMin(S) == CHOOSE x \in S : \A y \in S : x <= y

\* the literal lit occurs in s at position i, ignoring case (flag i)
MatchAt(s, i, lit) ==
    /\ i + Len(lit) - 1 <= Len(s)
    /\ \A k \in 1..Len(lit) : Lower(s[i + k - 1]) = lit[k]

\* Last position of the match of /<open.*?>.*?<close>/i that starts at i,
\* or 0 when none starts there.  Both lazy runs exclude line terminators,
\* so the match ends at the first closing literal that has a ">" and no line
\* terminator between the opening literal and itself.
BlockEnd(s, i, open, close) ==
    IF ~MatchAt(s, i, open) THEN 0
    ELSE LET from == i + Len(open)
             ks == {k \in (from + 1)..Len(s) :
                      /\ MatchAt(s, k, close)
                      /\ \E j \in from..(k - 1) : s[j] = ">"
                      /\ \A j \in from..(k - 1) : s[j] \notin LineTerminators}
         IN IF ks = {} THEN 0 ELSE SetMin(ks) + Len(close) - 1

\* s.replace(/<open.*?>.*?<close>/gi, ""), scanning from position i
RECURSIVE RemoveBlocks(_, _, _, _)
RemoveBlocks(s, i, open, close) ==
    IF i > Len(s) THEN <<>>
    ELSE LET e == BlockEnd(s, i, open, close)
         IN IF e = 0 THEN <<s[i]>> \o RemoveBlocks(s, i + 1, open, close)
            ELSE RemoveBlocks(s, e + 1, open, close)

\* Last position of the match of /<[^>]+>/ that starts at i, or 0
TagEnd(s, i) ==
    IF s[i] # "<" THEN 0
    ELSE LET js == {j \in (i + 1)..Len(s) : s[j] = ">"}
         IN IF js = {} \/ SetMin(js) = i + 1 THEN 0 ELSE SetMin(js)

\* s.replace(/<[^>]+>/g, ""), scanning from position i
RECURSIVE RemoveTags(_, _)
RemoveTags(s, i) ==
    IF i > Len(s) THEN <<>>
    ELSE LET e == TagEnd(s, i)
         IN IF e = 0 THEN <<s[i]>> \o RemoveTags(s, i + 1)
            ELSE RemoveTags(s, e + 1)

\* String.prototype.trim
RECURSIVE TrimLeft(_)
TrimLeft(s) ==
    IF s = <<>> THEN <<>>
    ELSE IF Head(s) \in Whitespace THEN TrimLeft(Tail(s)) ELSE s

RECURSIVE TrimRight(_)
TrimRight(s) ==
    IF s = <<>> THEN <<>>
    ELSE IF s[Len(s)] \in Whitespace THEN TrimRight(SubSeq(s, 1, Len(s) - 1))
         ELSE s

Trim(s) == TrimRight(TrimLeft(s))

ScriptOpen == <<"<", "s", "c", "r", "i", "p", "t">>
ScriptClose == <<"<", "/", "s", "c", "r", "i", "p", "t", ">">>
StyleOpen == <<"<", "s", "t", "y", "l", "e">>
StyleClose == <<"<", "/", "s", "t", "y", "l", "e", ">">>

extractTextFromHTML(html) ==
    LET noScript == RemoveBlocks(html, 1, ScriptOpen, ScriptClose)
        cleanedHTML == RemoveBlocks(noScript, 1, StyleOpen, StyleClose)
    IN Trim(RemoveTags(cleanedHTML, 1))

\* ------------------------------------------------- requests and outcomes
Reqs == 1..NumReqs
Solo == {1}

NoBody == [text |-> Undef, url |-> Undef, question |-> Undef,
           srcLang |-> Undef, tgtLang |-> Undef]
NoReq == [route |-> "", body |-> NoBody, file |-> FALSE]

TextVals == {Undef, Empty, Str(<<" ">>), Str(<<" ", "\n">>), Str(<<"a", " ">>)}
LangVals == {Undef, Empty, Lit("eng_Latn"), Lit("amh_Ethi")}
UrlVals == {Undef, Empty, Lit("http://site")}
QuestionVals == {Undef, Empty, Lit("What?")}

\* pages the fetch can return: up to MaxTokens pieces of markup and text
Tokens == { <<"<", "s", "c", "r", "i", "p", "t", ">">>, ScriptClose,
            <<"<", "S", "T", "Y", "L", "E", " ", "a", ">">>, StyleClose,
            <<"<", "p", ">">>, <<"x">>, <<" ">>, <<"\n">> }
RECURSIVE Pages(_)
Pages(n) ==
    IF n = 0 THEN {<<>>}
    ELSE LET shorter == Pages(n - 1)
         IN shorter \cup {p \o t : p \in shorter, t \in Tokens}

\* how an awaited external operation settles: it throws an error carrying a
\* message, or resolves with null, or with an object whose result field is val
Threw(msg) == [kind |-> "throw", val |-> msg]
Null == [kind |-> "null", val |-> Undef]
Obj(v) == [kind |-> "obj", val |-> v]
Outcomes == {Threw(Lit("service error")), Threw(Empty), Null,
             Obj(Undef), Obj(Empty), Obj(Lit("result one")), Obj(Lit("result two"))}
\* axios.get: throws, or resolves with response.data a string or a parsed object
FetchOutcomes(n) == {Threw(Lit("network error")), Obj([tag |-> "object", chars |-> <<>>])}
                      \cup {Obj(Str(p)) : p \in Pages(n)}
\* a filesystem call works or fails for a reason of its own (I/O, permissions)
FsOutcomes == {"ok", "fault"}

\* ---------------------------------------------------------------- state
VARIABLES
    req,       \* req[r]: route, JSON body and upload of request r
    pc,        \* pc[r]: "idle", the operation r is suspended on, or "done"
    calls,     \* calls[r]: external calls r has issued, in order
    inflight,  \* inflight[r]: indices in calls[r] not yet settled
    hist,      \* hist[r]: how r's awaited and filesystem operations settled
    resp,      \* resp[r]: responses sent for r, in order
    fs,        \* fs[p]: the file at path p of uploads/
    fsops,     \* fsops[r]: filesystem calls made on behalf of r
    unlinkQ    \* paths whose asynchronous fs.unlink has not run yet

vars == <<req, pc, calls, inflight, hist, resp, fs, fsops, unlinkQ>>

NoFile == [exists |-> FALSE, owner |-> 0]

Init ==
    /\ req = [r \in Reqs |-> NoReq]
    /\ pc = [r \in Reqs |-> "idle"]
    /\ calls = [r \in Reqs |-> <<>>]
    /\ inflight = [r \in Reqs |-> {}]
    /\ hist = [r \in Reqs |-> <<>>]
    /\ resp = [r \in Reqs |-> <<>>]
    /\ fs = [p \in Reqs |-> NoFile]
    /\ fsops = [r \in Reqs |-> <<>>]
    /\ unlinkQ = {}

\* ------------------------------------------------------- handler pieces
\* JSON.stringify drops a key whose value is undefined
Json(key, val) ==
    IF val.tag = "undefined" THEN [key |-> "", val |-> Undef]
    ELSE [key |-> key, val |-> val]

NoCall == [op |-> "", model |-> "", inputs |-> Undef, src_lang |-> Undef,
           tgt_lang |-> Undef, question |-> Undef, max_length |-> 0, min_length |-> 0]

summarization(text) ==
    [NoCall EXCEPT !.op = "summarization", !.model = "google/pegasus-xsum",
                   !.inputs = text, !.max_length = MaxLength, !.min_length = MinLength]

SummaryTranslation(summary, tgtLang) ==
    [NoCall EXCEPT !.op = "translation", !.model = "facebook/nllb-200-distilled-600M",
                   !.inputs = summary, !.src_lang = Lit("eng_Latn"), !.tgt_lang = tgtLang]

translation(text, srcLang, tgtLang) ==
    [NoCall EXCEPT !.op = "translation", !.model = "facebook/nllb-200-distilled-600M",
                   !.inputs = text, !.src_lang = srcLang, !.tgt_lang = tgtLang]

automaticSpeechRecognition(audioData) ==
    [NoCall EXCEPT !.op = "automaticSpeechRecognition",
                   !.model = "facebook/wav2vec2-large-960h", !.inputs = audioData]

questionAnswering(question, textContent) ==
    [NoCall EXCEPT !.op = "questionAnswering", !.model = "deepset/roberta-base-squad2",
                   !.inputs = textContent, !.question = question]

axiosGet(url) == [NoCall EXCEPT !.op = "fetch", !.inputs = url]

\* res.status(status).json({key: val}); the handler then returns
Reply(r, settled, status, key, val) ==
    /\ resp' = [resp EXCEPT ![r] = Append(@, [status |-> status, body |-> Json(key, val)])]
    /\ pc' = [pc EXCEPT ![r] = "done"]
    /\ inflight' = [inflight EXCEPT ![r] = @ \ settled]
    /\ calls' = calls

\* await <call>: the handler suspends until the call settles
Await(r, settled, call) ==
    /\ calls' = [calls EXCEPT ![r] = Append(@, call)]
    /\ inflight' = [inflight EXCEPT ![r] = (@ \ settled) \cup {Len(calls[r]) + 1}]
    /\ pc' = [pc EXCEPT ![r] = call.op]
    /\ resp' = resp

Event(op, kind, val) == [op |-> op, kind |-> kind, val |-> val]

\* request r arrives; events: how the filesystem calls of the first run settled
Arrive(r, route, body, file, events) ==
    /\ pc[r] = "idle"
    /\ req' = [req EXCEPT ![r] = [route |-> route, body |-> body, file |-> file]]
    /\ hist' = [hist EXCEPT ![r] = events]

\* the handler of route for r is suspended on a call of op
Suspended(r, route, op) == pc[r] = op /\ req[r].route = route

\* the awaited call of r settles with outcome o and the handler resumes
Resume(r, route, op, o, events) ==
    /\ Suspended(r, route, op)
    /\ hist' = [hist EXCEPT ![r] = Append(@, Event(op, o.kind, o.val)) \o events]
    /\ req' = req

Last(r) == {Len(calls[r])}
NoFs == UNCHANGED <<fs, fsops, unlinkQ>>

SummarizeFallback == Lit("Summarization and translation failed")
NoSummary == Lit("Summarization failed: No summary text returned")
NoContent == Lit("No text content found on the website")
FetchFailed == Lit("Failed to fetch website content")
\* message of the TypeError raised by reading a property of null
NullRead == Lit("Cannot read properties of null")
\* message of the TypeError raised by html.replace on a value that is no string
NotAString == Lit("html.replace is not a function")

\* ------------------------------------------------- POST /summarize-text
SummarizeTextMissing(body) == ~Truthy(body.text) \/ ~Truthy(body.tgtLang)

\* as SummarizeTextBlank, without trim()
SummarizeTextBlankNoTrim(text) == Len(text.chars) = 0

SummarizeTextBlank(text) == Len(Trim(text.chars)) = 0

SummarizeTextStart(r, texts, langs) ==
    \E text \in texts, tgtLang \in langs :
      LET body == [NoBody EXCEPT !.text = text, !.tgtLang = tgtLang] IN
        /\ Arrive(r, "/summarize-text", body, FALSE, <<>>)
        /\ IF SummarizeTextMissing(body)
           THEN Reply(r, {}, 400, "error", Lit("Missing required fields: text or tgtLang"))
           ELSE IF SummarizeTextBlank(text)
           THEN Reply(r, {}, 500, "error",
                      OrElse(Lit("No valid text content provided"), SummarizeFallback))
           ELSE Await(r, {}, summarization(text))
        /\ NoFs

\* as SummaryMissing, without the test of summary_text
SummaryMissingNullOnly(o) == o.kind = "null"

SummaryMissing(o) == o.kind = "null" \/ ~Truthy(o.val)

\* lines 65-77 and 110-124: the code after the summarization call resolved
AfterSummarization(r, o) ==
    IF o.kind = "throw"
    THEN Reply(r, Last(r), 500, "error", OrElse(o.val, SummarizeFallback))
    ELSE IF SummaryMissing(o)
    THEN Reply(r, Last(r), 500, "error", OrElse(NoSummary, SummarizeFallback))
    ELSE Await(r, Last(r), SummaryTranslation(o.val, req[r].body.tgtLang))

\* lines 77-81 and 122-128: the code after the translation call settled
AfterSummaryTranslation(r, o, key) ==
    IF o.kind = "throw"
    THEN Reply(r, Last(r), 500, "error", OrElse(o.val, SummarizeFallback))
    ELSE IF o.kind = "null"
    THEN Reply(r, Last(r), 500, "error", OrElse(NullRead, SummarizeFallback))
    ELSE Reply(r, Last(r), 200, key, o.val)

SummarizeTextSummarized(r, outs) ==
    /\ Suspended(r, "/summarize-text", "summarization")
    /\ \E o \in outs :
         /\ Resume(r, "/summarize-text", "summarization", o, <<>>)
         /\ AfterSummarization(r, o)
         /\ NoFs

SummarizeTextTranslated(r, outs) ==
    /\ Suspended(r, "/summarize-text", "translation")
    /\ \E o \in outs :
         /\ Resume(r, "/summarize-text", "translation", o, <<>>)
         /\ AfterSummaryTranslation(r, o, "translatedSummary")
         /\ NoFs

\* ------------------------------------------------------ POST /summarize
SummarizeMissing(body) == ~Truthy(body.url) \/ ~Truthy(body.tgtLang)

SummarizeStart(r, urls, langs) ==
    \E url \in urls, tgtLang \in langs :
      LET body == [NoBody EXCEPT !.url = url, !.tgtLang = tgtLang] IN
        /\ Arrive(r, "/summarize", body, FALSE, <<>>)
        /\ IF SummarizeMissing(body)
           THEN Reply(r, {}, 400, "error", Lit("Missing required fields: url or tgtLang"))
           ELSE Await(r, {}, axiosGet(url))
        /\ NoFs

\* as ContentMissing, testing for null only
ContentMissingNever(textContent) == FALSE

\* !textContent || textContent.trim().length === 0
ContentMissing(textContent) ==
    ~Truthy(Str(textContent)) \/ Len(Trim(textContent)) = 0

\* const textContent = extractTextFromHTML(htmlContent)
TextContent(o) == Str(extractTextFromHTML(o.val.chars))

\* lines 94-108 and 194-207: the code from the settled fetch to the next call,
\* which is made on TextContent(o)
AfterFetch(r, o, fallback, call) ==
    IF o.kind = "throw"
    THEN Reply(r, Last(r), 500, "error", OrElse(FetchFailed, fallback))
    ELSE IF o.val.tag # "string"
    THEN Reply(r, Last(r), 500, "error", OrElse(NotAString, fallback))
    ELSE IF ContentMissing(TextContent(o).chars)
    THEN Reply(r, Last(r), 500, "error", OrElse(NoContent, fallback))
    ELSE Await(r, Last(r), call)

SummarizeFetched(r, pages) ==
    /\ Suspended(r, "/summarize", "fetch")
    /\ \E o \in pages :
         /\ Resume(r, "/summarize", "fetch", o, <<>>)
         /\ AfterFetch(r, o, SummarizeFallback, summarization(TextContent(o)))
         /\ NoFs

SummarizeSummarized(r, outs) ==
    /\ Suspended(r, "/summarize", "summarization")
    /\ \E o \in outs :
         /\ Resume(r, "/summarize", "summarization", o, <<>>)
         /\ AfterSummarization(r, o)
         /\ NoFs

SummarizeTranslated(r, outs) ==
    /\ Suspended(r, "/summarize", "translation")
    /\ \E o \in outs :
         /\ Resume(r, "/summarize", "translation", o, <<>>)
         /\ AfterSummaryTranslation(r, o, "summary")
         /\ NoFs

\* ------------------------------------------------- POST /speech-to-text
\* as UploadPath, every upload stored under one fixed name
UploadPathFixed(r) == 1

\* multer names every upload with fresh random bytes under uploads/
UploadPath(r) == r

\* the bytes request r uploaded
Audio(r) == [tag |-> "buffer", chars |-> <<ToString(r)>>]

\* upload.single("audio"): the upload is written to its temporary file
Upload(r, disk) == [disk EXCEPT ![UploadPath(r)] = [exists |-> TRUE, owner |-> r]]

\* a synchronous filesystem call on path p works iff the file is there and
\* nothing else goes wrong
FsWorks(disk, p, o) == disk[p].exists /\ o = "ok"

FsOp(r, op, disk, p, ok) == [op |-> op, path |-> p, owner |-> disk[p].owner, ok |-> ok]

TranscriptionMissing(o) == o.kind = "null" \/ ~Truthy(o.val)

\* lines 152-160: fs.unlink is asynchronous, its callback ignores the result
SpeechCatch(r, settled, ops, disk) ==
    /\ unlinkQ' = unlinkQ \cup {[req |-> r, path |-> UploadPath(r)]}
    /\ fsops' = [fsops EXCEPT ![r] = @ \o ops]
    /\ fs' = disk
    /\ Reply(r, settled, 500, "error", Lit("Speech-to-text conversion failed"))

SpeechStart(r, files) ==
    \E file \in files, o \in FsOutcomes :
        /\ Arrive(r, "/speech-to-text", NoBody, file,
                  IF file THEN <<Event("readFileSync", o, Undef)>> ELSE <<>>)
        /\ IF ~file
           THEN /\ o = "ok"
                /\ Reply(r, {}, 400, "error", Lit("No audio file uploaded"))
                /\ NoFs
           ELSE LET disk == Upload(r, fs)
                    p == UploadPath(r)
                    ok == FsWorks(disk, p, o)
                    read == <<FsOp(r, "readFileSync", disk, p, ok)>>
                IN IF ~ok
                   THEN SpeechCatch(r, {}, read, disk)
                   ELSE /\ Await(r, {}, automaticSpeechRecognition(Audio(disk[p].owner)))
                        /\ fs' = disk
                        /\ fsops' = [fsops EXCEPT ![r] = @ \o read]
                        /\ unlinkQ' = unlinkQ

SpeechTranscribed(r, outs) ==
    /\ Suspended(r, "/speech-to-text", "automaticSpeechRecognition")
    /\ \E o \in outs, u \in FsOutcomes :
         /\ Resume(r, "/speech-to-text", "automaticSpeechRecognition", o,
                   IF o.kind = "throw" THEN <<>> ELSE <<Event("unlinkSync", u, Undef)>>)
         /\ IF o.kind = "throw"
            THEN /\ u = "ok"
                 /\ SpeechCatch(r, Last(r), <<>>, fs)
            ELSE LET p == UploadPath(r)
                     ok == FsWorks(fs, p, u)
                     unlinked == <<FsOp(r, "unlinkSync", fs, p, ok)>>
                 IN IF ~ok
                    THEN SpeechCatch(r, Last(r), unlinked, fs)
                    ELSE /\ fs' = [fs EXCEPT ![p] = NoFile]
                         /\ fsops' = [fsops EXCEPT ![r] = @ \o unlinked]
                         /\ unlinkQ' = unlinkQ
                         /\ IF TranscriptionMissing(o)
                            THEN Reply(r, Last(r), 500, "error", Lit("Speech-to-text failed"))
                            ELSE Reply(r, Last(r), 200, "transcription", o.val)

\* the queued fs.unlink of r runs on the thread pool; () => {} drops its result
UnlinkCallback(r) ==
    \E e \in unlinkQ, o \in FsOutcomes :
        /\ e.req = r
        /\ LET ok == FsWorks(fs, e.path, o) IN
             /\ fsops' = [fsops EXCEPT ![r] = Append(@, FsOp(r, "unlink", fs, e.path, ok))]
             /\ fs' = IF ok THEN [fs EXCEPT ![e.path] = NoFile] ELSE fs
        /\ unlinkQ' = unlinkQ \ {e}
        /\ UNCHANGED <<req, pc, calls, inflight, hist, resp>>

\* ------------------------------------------------------ POST /translate
\* as TranslateMissing, srcLang left unchecked
TranslateMissingNoSrc(body) == ~Truthy(body.text) \/ ~Truthy(body.tgtLang)

TranslateMissing(body) ==
    ~Truthy(body.text) \/ ~Truthy(body.srcLang) \/ ~Truthy(body.tgtLang)

TranslateStart(r, texts, langs) ==
    \E text \in texts, srcLang \in langs, tgtLang \in langs :
      LET body == [NoBody EXCEPT !.text = text, !.srcLang = srcLang, !.tgtLang = tgtLang] IN
        /\ Arrive(r, "/translate", body, FALSE, <<>>)
        /\ IF TranslateMissing(body)
           THEN Reply(r, {}, 400, "error", Lit("Missing required fields"))
           ELSE Await(r, {}, translation(text, srcLang, tgtLang))
        /\ NoFs

\* as AfterTranslation, without the catch block
AfterTranslationUncaught(r, o) ==
    IF o.kind = "obj"
    THEN Reply(r, Last(r), 200, "translatedText", o.val)
    ELSE /\ pc' = [pc EXCEPT ![r] = "done"]
         /\ inflight' = [inflight EXCEPT ![r] = @ \ Last(r)]
         /\ UNCHANGED <<resp, calls>>

\* lines 178-182
AfterTranslation(r, o) ==
    IF o.kind = "obj"
    THEN Reply(r, Last(r), 200, "translatedText", o.val)
    ELSE Reply(r, Last(r), 500, "error", Lit("Translation failed"))

TranslateTranslated(r, outs) ==
    /\ Suspended(r, "/translate", "translation")
    /\ \E o \in outs :
         /\ Resume(r, "/translate", "translation", o, <<>>)
         /\ AfterTranslation(r, o)
         /\ NoFs

\* ------------------------------------------------------------- POST /qa
QaFallback == Lit("Question answering failed")

QaMissing(body) == ~Truthy(body.url) \/ ~Truthy(body.question)

QaStart(r, urls, questions) ==
    \E url \in urls, question \in questions :
      LET body == [NoBody EXCEPT !.url = url, !.question = question] IN
        /\ Arrive(r, "/qa", body, FALSE, <<>>)
        /\ IF QaMissing(body)
           THEN Reply(r, {}, 400, "error", Lit("Missing required fields: url or question"))
           ELSE Await(r, {}, axiosGet(url))
        /\ NoFs

QaFetched(r, pages) ==
    /\ Suspended(r, "/qa", "fetch")
    /\ \E o \in pages :
         /\ Resume(r, "/qa", "fetch", o, <<>>)
         /\ AfterFetch(r, o, QaFallback,
                       questionAnswering(req[r].body.question, TextContent(o)))
         /\ NoFs

\* as AnswerMissing, without the test of answer
AnswerMissingNullOnly(o) == o.kind = "null"

AnswerMissing(o) == o.kind = "null" \/ ~Truthy(o.val)

\* lines 209-217
AfterQuestionAnswering(r, o) ==
    IF o.kind = "throw"
    THEN Reply(r, Last(r), 500, "error", OrElse(o.val, QaFallback))
    ELSE IF AnswerMissing(o)
    THEN Reply(r, Last(r), 500, "error", QaFallback)
    ELSE Reply(r, Last(r), 200, "answer", o.val)

QaAnswered(r, outs) ==
    /\ Suspended(r, "/qa", "questionAnswering")
    /\ \E o \in outs :
         /\ Resume(r, "/qa", "questionAnswering", o, <<>>)
         /\ AfterQuestionAnswering(r, o)
         /\ NoFs

\* -------------------------------------------------------- specification
\* Spec: one request, every route, every input and every outcome.
AllPages == FetchOutcomes(MaxTokens)

Next ==
    \E r \in Solo :
        \/ SummarizeTextStart(r, TextVals, LangVals)
        \/ SummarizeTextSummarized(r, Outcomes)
        \/ SummarizeTextTranslated(r, Outcomes)
        \/ SummarizeStart(r, UrlVals, LangVals)
        \/ SummarizeFetched(r, AllPages)
        \/ SummarizeSummarized(r, Outcomes)
        \/ SummarizeTranslated(r, Outcomes)
        \/ SpeechStart(r, BOOLEAN)
        \/ SpeechTranscribed(r, Outcomes)
        \/ UnlinkCallback(r)
        \/ TranslateStart(r, TextVals, LangVals)
        \/ TranslateTranslated(r, Outcomes)
        \/ QaStart(r, UrlVals, QuestionVals)
        \/ QaFetched(r, AllPages)
        \/ QaAnswered(r, Outcomes)

Spec == Init /\ [][Next]_vars

\* ConcSpec: NumReqs requests in flight at once, interleaved at their
\* suspension points, each with a well-formed body.
GoodTexts == {Str(<<"a", " ">>)}
GoodLangs == {Lit("amh_Ethi")}
GoodUrls == {Lit("http://site")}
GoodQuestions == {Lit("What?")}
FewOutcomes == {Threw(Lit("service error")), Obj(Undef), Obj(Lit("result one"))}
FewPages == {Threw(Lit("network error")), Obj(Str(<<"<", "p", ">", "x">>))}

ConcNext ==
    \E r \in Reqs :
        \/ SummarizeTextStart(r, GoodTexts, GoodLangs)
        \/ SummarizeTextSummarized(r, FewOutcomes)
        \/ SummarizeTextTranslated(r, FewOutcomes)
        \/ SummarizeStart(r, GoodUrls, GoodLangs)
        \/ SummarizeFetched(r, FewPages)
        \/ SummarizeSummarized(r, FewOutcomes)
        \/ SummarizeTranslated(r, FewOutcomes)
        \/ SpeechStart(r, {TRUE})
        \/ SpeechTranscribed(r, FewOutcomes)
        \/ UnlinkCallback(r)
        \/ TranslateStart(r, GoodTexts, GoodLangs)
        \/ TranslateTranslated(r, FewOutcomes)
        \/ QaStart(r, GoodUrls, GoodQuestions)
        \/ QaFetched(r, FewPages)
        \/ QaAnswered(r, FewOutcomes)

ConcSpec == Init /\ [][ConcNext]_vars

\* ------------------------------------------------------------ properties
Started(r) == pc[r] # "idle"
Done(r) == pc[r] = "done"
Route(r) == req[r].route
Body(r) == req[r].body

\* absent or empty
Absent(v) == v.tag = "undefined" \/ (v.tag = "string" /\ v.chars = <<>>)

Required(route) ==
    CASE route = "/summarize-text" -> {"text", "tgtLang"}
      [] route = "/summarize" -> {"url", "tgtLang"}
      [] route = "/translate" -> {"text", "srcLang", "tgtLang"}
      [] route = "/qa" -> {"url", "question"}
      [] OTHER -> {}

Incomplete(r) ==
    \/ \E f \in Required(Route(r)) : Absent(Body(r)[f])
    \/ Route(r) = "/speech-to-text" /\ ~req[r].file

IsError(rsp, status) ==
    rsp.status = status /\ rsp.body.key = "error" /\ rsp.body.val.tag = "string"

ErrorIs(rsp, status, msg) == rsp.status = status /\ rsp.body = [key |-> "error", val |-> Lit(msg)]

\* the outcomes recorded for operation op of request r
Settled(r, op) == {i \in 1..Len(hist[r]) : hist[r][i].op = op}
HasField(e) == e.kind = "obj" /\ e.val.tag = "string"
Issued(r, op) == {i \in 1..Len(calls[r]) : calls[r][i].op = op}
Inference == {"summarization", "translation", "automaticSpeechRecognition", "questionAnswering"}

\* C1: a request that lacks a required field (or the audio file) is answered
\* 400 with an error field, and no external call is issued for it.
C1_MissingFieldRejected ==
    \A r \in Reqs : Started(r) /\ Incomplete(r) =>
        /\ Len(resp[r]) = 1 /\ IsError(resp[r][1], 400)
        /\ calls[r] = <<>>

C1_Witness ==
    \E r \in Reqs :
        /\ Route(r) = "/translate" /\ Done(r)
        /\ Truthy(Body(r).text) /\ Truthy(Body(r).tgtLang) /\ Absent(Body(r).srcLang)
        /\ resp[r][1].status = 400

\* C2: once a /speech-to-text handler with an upload has answered and returned,
\* the temporary file has been unlinked exactly once and no unlink is pending.
Unlinks(r) == {i \in 1..Len(fsops[r]) : fsops[r][i].op \in {"unlinkSync", "unlink"}}
PendingUnlinks(r) == {e \in unlinkQ : e.req = r}

C2_DeletedOnceBeforeReturn ==
    \A r \in Reqs : Done(r) /\ req[r].file =>
        /\ PendingUnlinks(r) = {}
        /\ Cardinality(Unlinks(r)) = 1

\* C3: in the summarize routes the calls are sequential: translation is issued
\* only after summarization resolved with a non-empty summary_text, on exactly
\* that summary with eng_Latn and the caller's tgtLang; no operation is called
\* twice and at most one call is outstanding.
SummarizeRoutes == {"/summarize-text", "/summarize"}

C3_Sequential ==
    \A r \in Reqs : Route(r) \in SummarizeRoutes =>
        /\ Cardinality(inflight[r]) <= 1
        /\ \A op \in Inference \cup {"fetch"} : Cardinality(Issued(r, op)) <= 1
        /\ \A i \in Issued(r, "translation") :
             \E j \in Issued(r, "summarization"), k \in Settled(r, "summarization") :
                /\ j < i /\ j \notin inflight[r]
                /\ HasField(hist[r][k]) /\ hist[r][k].val.chars # <<>>
                /\ calls[r][i].inputs = hist[r][k].val
                /\ calls[r][i].src_lang = Lit("eng_Latn")
                /\ calls[r][i].tgt_lang = Body(r).tgtLang

C3_Witness ==
    \E r \in Reqs :
        /\ Route(r) = "/summarize" /\ Issued(r, "translation") # {}
        /\ Body(r).tgtLang = Lit("amh_Ethi")

\* C4: on /summarize and /qa a failed fetch or a page whose extracted text is
\* empty ends the request with a 500 error and no inference call; an inference
\* call implies a fetched page with non-empty extracted text.
FetchRoutes == {"/summarize", "/qa"}
Usable(e) ==
    /\ HasField(e)
    /\ Trim(extractTextFromHTML(e.val.chars)) # <<>>

C4_NoInferenceWithoutContent ==
    \A r \in Reqs : Route(r) \in FetchRoutes =>
        /\ \A k \in Settled(r, "fetch") : ~Usable(hist[r][k]) =>
              /\ Done(r) /\ Len(resp[r]) = 1 /\ IsError(resp[r][1], 500)
              /\ \A op \in Inference : Issued(r, op) = {}
        /\ (\E op \in Inference : Issued(r, op) # {}) =>
              \E k \in Settled(r, "fetch") : Usable(hist[r][k])

C4_Witness ==
    \E r \in Reqs :
        /\ Route(r) = "/qa" /\ Done(r)
        /\ \E k \in Settled(r, "fetch") :
              /\ HasField(hist[r][k]) /\ Len(hist[r][k].val.chars) > 1
              /\ ~Usable(hist[r][k])
        /\ resp[r][1].status = 500

\* C5: in the summarize routes a translation that resolves without
\* translation_text fails the request with a 500 error, and a 200 carries the
\* translation string the service returned.
ResultKey(route) == IF route = "/summarize-text" THEN "translatedSummary" ELSE "summary"

C5_TranslationFieldRequired ==
    \A r \in Reqs : Route(r) \in SummarizeRoutes /\ Done(r) =>
        /\ \A k \in Settled(r, "translation") :
              hist[r][k].kind # "throw" /\ ~HasField(hist[r][k]) => IsError(resp[r][1], 500)
        /\ resp[r][1].status = 200 =>
              \E k \in Settled(r, "translation") :
                 /\ HasField(hist[r][k])
                 /\ resp[r][1].body = [key |-> ResultKey(Route(r)), val |-> hist[r][k].val]

\* C6: /translate with all three fields makes one translation call with
\* srcLang and tgtLang passed through; a throw or a response without
\* translation_text gives 500 "Translation failed", anything else gives 200 with
\* translatedText the returned translation_text.
C6_TranslateContract ==
    \A r \in Reqs : Route(r) = "/translate" /\ Started(r) /\ ~Incomplete(r) =>
        /\ Len(calls[r]) = 1
        /\ calls[r][1].op = "translation"
        /\ calls[r][1].inputs = Body(r).text
        /\ calls[r][1].src_lang = Body(r).srcLang
        /\ calls[r][1].tgt_lang = Body(r).tgtLang
        /\ Done(r) =>
             \A k \in Settled(r, "translation") :
                IF HasField(hist[r][k])
                THEN resp[r][1] = [status |-> 200,
                                   body |-> [key |-> "translatedText", val |-> hist[r][k].val]]
                ELSE ErrorIs(resp[r][1], 500, "Translation failed")

\* C7: every request gets exactly one response, of status 200, 400 or 500,
\* every non-200 one with an error field; a handler that has not answered yet
\* is suspended on exactly one outstanding call.
C7_OneResponse ==
    \A r \in Reqs :
        /\ Len(resp[r]) <= 1
        /\ Done(r) <=> Len(resp[r]) = 1
        /\ \A i \in 1..Len(resp[r]) :
              /\ resp[r][i].status \in {200, 400, 500}
              /\ resp[r][i].status # 200 => IsError(resp[r][i], resp[r][i].status)
        /\ Started(r) /\ ~Done(r) => Cardinality(inflight[r]) = 1

C7_Witness ==
    \E r \in Reqs :
        /\ Route(r) = "/translate" /\ Done(r)
        /\ \E k \in Settled(r, "translation") : hist[r][k].kind = "throw"
        /\ Len(resp[r]) = 1 /\ resp[r][1].status = 500

\* C8 as stated: on /qa, whenever the QA response carries an answer field the
\* response is 200 with that answer, and a 500 only comes without the field.
C8_AnyAnswerVerbatim ==
    \A r \in Reqs : Route(r) = "/qa" /\ Done(r) =>
        \A k \in Settled(r, "questionAnswering") :
           /\ HasField(hist[r][k]) =>
                 resp[r][1] = [status |-> 200, body |-> [key |-> "answer", val |-> hist[r][k].val]]
           /\ resp[r][1].status = 500 => ~HasField(hist[r][k])

\* C8 amended: on /qa, a QA response with a non-empty answer gives 200 with
\* that answer verbatim; a throw, a null response, a response without answer
\* or with an empty answer gives a 500 error.
C8_NonEmptyAnswerVerbatim ==
    \A r \in Reqs : Route(r) = "/qa" /\ Done(r) =>
        \A k \in Settled(r, "questionAnswering") :
           IF HasField(hist[r][k]) /\ hist[r][k].val.chars # <<>>
           THEN resp[r][1] = [status |-> 200, body |-> [key |-> "answer", val |-> hist[r][k].val]]
           ELSE IsError(resp[r][1], 500)

C8_Witness ==
    \E r \in Reqs :
        /\ Route(r) = "/qa" /\ Done(r)
        /\ \E k \in Settled(r, "questionAnswering") : hist[r][k] = Event("questionAnswering", "obj", Empty)
        /\ resp[r][1].status = 500

\* C10: on /summarize-text a whitespace-only text with tgtLang present is
\* answered 500 "No valid text content provided" without any external call.
OnlyWhitespace(v) ==
    /\ v.tag = "string" /\ v.chars # <<>>
    /\ \A i \in 1..Len(v.chars) : v.chars[i] \in Whitespace

C10_BlankTextRejected ==
    \A r \in Reqs :
        /\ Route(r) = "/summarize-text"
        /\ ~Absent(Body(r).tgtLang) /\ OnlyWhitespace(Body(r).text)
        => /\ resp[r] = <<[status |-> 500,
                           body |-> [key |-> "error", val |-> Lit("No valid text content provided")]]>>
           /\ calls[r] = <<>>

C10_Witness ==
    \E r \in Reqs :
        /\ Route(r) = "/summarize-text" /\ Done(r)
        /\ Body(r).text = Str(<<" ", "\n">>) /\ Truthy(Body(r).tgtLang)
        /\ resp[r][1].status = 500

\* The handlers run start to finish with nothing else in flight: the response
\* and the calls of request rq whose operations settle as h says, in order.
Answer(called, status, key, val) ==
    [calls |-> called, resp |-> <<[status |-> status, body |-> Json(key, val)]>>]

AloneSummarized(rq, h, i, called, key) ==
    IF h[i].kind = "throw"
    THEN Answer(called, 500, "error", OrElse(h[i].val, SummarizeFallback))
    ELSE IF h[i].kind = "null" \/ ~Truthy(h[i].val)
    THEN Answer(called, 500, "error", NoSummary)
    ELSE LET all == Append(called, SummaryTranslation(h[i].val, rq.body.tgtLang)) IN
         IF h[i + 1].kind = "throw"
         THEN Answer(all, 500, "error", OrElse(h[i + 1].val, SummarizeFallback))
         ELSE IF h[i + 1].kind = "null"
         THEN Answer(all, 500, "error", NullRead)
         ELSE Answer(all, 200, key, h[i + 1].val)

AloneFetched(rq, h, fallback) ==
    LET called == <<axiosGet(rq.body.url)>> IN
    IF h[1].kind = "throw" THEN Answer(called, 500, "error", FetchFailed)
    ELSE IF h[1].val.tag # "string" THEN Answer(called, 500, "error", NotAString)
    ELSE IF extractTextFromHTML(h[1].val.chars) = <<>> THEN Answer(called, 500, "error", NoContent)
    ELSE [calls |-> called, resp |-> <<>>]

AloneSummarizeText(rq, h) ==
    IF ~Truthy(rq.body.text) \/ ~Truthy(rq.body.tgtLang)
    THEN Answer(<<>>, 400, "error", Lit("Missing required fields: text or tgtLang"))
    ELSE IF Trim(rq.body.text.chars) = <<>>
    THEN Answer(<<>>, 500, "error", Lit("No valid text content provided"))
    ELSE AloneSummarized(rq, h, 1, <<summarization(rq.body.text)>>, "translatedSummary")

AloneSummarize(rq, h) ==
    IF ~Truthy(rq.body.url) \/ ~Truthy(rq.body.tgtLang)
    THEN Answer(<<>>, 400, "error", Lit("Missing required fields: url or tgtLang"))
    ELSE LET f == AloneFetched(rq, h, SummarizeFallback) IN
         IF f.resp # <<>> THEN f
         ELSE AloneSummarized(rq, h, 2,
                 Append(f.calls, summarization(Str(extractTextFromHTML(h[1].val.chars)))),
                 "summary")

AloneSpeech(rq, h, audio) ==
    LET failed == Lit("Speech-to-text conversion failed")
        called == <<automaticSpeechRecognition(audio)>>
    IN IF ~rq.file THEN Answer(<<>>, 400, "error", Lit("No audio file uploaded"))
       ELSE IF h[1].kind = "fault" THEN Answer(<<>>, 500, "error", failed)
       ELSE IF h[2].kind = "throw" THEN Answer(called, 500, "error", failed)
       ELSE IF h[3].kind = "fault" THEN Answer(called, 500, "error", failed)
       ELSE IF h[2].kind = "null" \/ ~Truthy(h[2].val)
       THEN Answer(called, 500, "error", Lit("Speech-to-text failed"))
       ELSE Answer(called, 200, "transcription", h[2].val)

AloneTranslate(rq, h) ==
    LET b == rq.body IN
    IF ~Truthy(b.text) \/ ~Truthy(b.srcLang) \/ ~Truthy(b.tgtLang)
    THEN Answer(<<>>, 400, "error", Lit("Missing required fields"))
    ELSE LET called == <<translation(b.text, b.srcLang, b.tgtLang)>> IN
         IF h[1].kind = "obj" THEN Answer(called, 200, "translatedText", h[1].val)
         ELSE Answer(called, 500, "error", Lit("Translation failed"))

AloneQa(rq, h) ==
    IF ~Truthy(rq.body.url) \/ ~Truthy(rq.body.question)
    THEN Answer(<<>>, 400, "error", Lit("Missing required fields: url or question"))
    ELSE LET f == AloneFetched(rq, h, QaFallback) IN
         IF f.resp # <<>> THEN f
         ELSE LET all == Append(f.calls,
                            questionAnswering(rq.body.question,
                                              Str(extractTextFromHTML(h[1].val.chars))))
              IN IF h[2].kind = "throw"
                 THEN Answer(all, 500, "error", OrElse(h[2].val, QaFallback))
                 ELSE IF h[2].kind = "null" \/ ~Truthy(h[2].val)
                 THEN Answer(all, 500, "error", QaFallback)
                 ELSE Answer(all, 200, "answer", h[2].val)

RunAlone(rq, h, audio) ==
    CASE rq.route = "/summarize-text" -> AloneSummarizeText(rq, h)
      [] rq.route = "/summarize" -> AloneSummarize(rq, h)
      [] rq.route = "/speech-to-text" -> AloneSpeech(rq, h, audio)
      [] rq.route = "/translate" -> AloneTranslate(rq, h)
      [] rq.route = "/qa" -> AloneQa(rq, h)

\* C9: requests in flight together do not interfere: every filesystem call of
\* a request is on the file uploaded for it, and a finished request has the
\* response and the external calls it has when it runs alone.
C9_NoInterference ==
    \A r \in Reqs :
        /\ \A i \in 1..Len(fsops[r]) : fsops[r][i].owner = r
        /\ Done(r) =>
             LET alone == RunAlone(req[r], hist[r], Audio(r)) IN
                /\ resp[r] = alone.resp
                /\ calls[r] = alone.calls

C9_Witness ==
    \E r1 \in Reqs, r2 \in Reqs :
        /\ r1 # r2
        /\ Route(r1) = "/speech-to-text" /\ Route(r2) = "/speech-to-text"
        /\ pc[r1] = "automaticSpeechRecognition"
        /\ Done(r2) /\ resp[r2][1].status = 200
        /\ \E i \in 1..Len(fsops[r2]) : fsops[r2][i].op = "unlinkSync" /\ fsops[r2][i].ok
====
